---- MODULE Spec2Model ----
(***************************************************************************)
(* Model of the learn-wgpu Windows skeleton: the App::run message pump     *)
(* (src/src/app.rs), the Window message handler (src/src/window.rs) and    *)
(* the surface configuration kept by GFX (src/src/gfx.rs).                 *)
(*                                                                         *)
(* A native message is a record                                            *)
(*   [message, wparam, lparam, rcw, rch, result]                           *)
(* message/wparam/lparam are the MSG fields.  rcw/rch and result are the   *)
(* answers the platform gives to the queries the handler makes while it    *)
(* handles that message: rcw = rc.right - rc.left and rch = rc.bottom -    *)
(* rc.top of GetClientRect (WM_SIZE), result = what                        *)
(* surface.get_current_texture() reports inside GFX::render (WM_PAINT).    *)
(***************************************************************************)
EXTENDS Integers, Sequences, FiniteSets, TLC

VARIABLES
    window,     \* the Window owned by App (window.rs:30-39)
    queue,      \* the thread's native message queue
    message,    \* `let mut message = MSG::default()` (app.rs:28)
    pc,         \* position of App::run
    posted,     \* number of messages the environment has posted so far
    log,        \* history: messages handed to Window::wndproc, in order
    renders,    \* history: number of GFX::render invocations
    capture,    \* platform mouse capture: held flag and SetCapture/ReleaseCapture counts
    iter,       \* history: bookkeeping of the current poll-and-drain iteration
    renderCtx,  \* history: circumstances of the most recent GFX::render
    initResult, \* history: what the platform reported to Window::initialize
    lastPanic   \* history: whether the latest window procedure call panicked

vars == <<window, queue, message, pc, posted, log, renders, capture, iter, renderCtx,
          initResult, lastPanic>>

----------------------------------------------------------------------------
(* Bounds of the model *)

MaxPosted == 3
MaxKbdMsgs == 4
MaxMouseMsgs == 5
MaxGfxMsgs == 3

\* Messages sent to the window procedure under SpecMouseSize
MaxMouseSizeMsgs == 3

\* Messages sent to the window procedure under SpecVis
MaxVisMsgs == 3

\* Messages sent to the window procedure under SpecKey
MaxKeyMsgs == 3

\* Messages sent to the window procedure during Window::initialize
MaxEarlyMsgs == 3

\* Messages sent to the window procedure under SpecFocus
MaxFocusMsgs == 3

\* Messages sent to the window procedure under SpecDims
MaxDimsMsgs == 3

\* Messages sent to the window procedure under SpecPos
MaxPosMsgs == 3

----------------------------------------------------------------------------
(* Program constants *)

\* App::new: Window::new(800, 600, "-")
AppWidth == 800
AppHeight == 600

\* u8::MAX, the target type of the key code conversion
U8Max == 255

\* 0x40000000, the previous-key-state bit of a key message's lparam
PrevStateBit == 1073741824

\* 0xFFFF + 1, the span of one 16-bit half of the position word
Word16 == 65536

----------------------------------------------------------------------------
(* Messages *)

Msg(t, w, l) ==
    [message |-> t, wparam |-> w, lparam |-> l, rcw |-> 0, rch |-> 0, result |-> "Ok"]

SizeMsg(w, h) ==
    [message |-> "WM_SIZE", wparam |-> 0, lparam |-> 0, rcw |-> w, rch |-> h, result |-> "Ok"]

PaintMsg(r) ==
    [message |-> "WM_PAINT", wparam |-> 0, lparam |-> 0, rcw |-> 0, rch |-> 0, result |-> r]

\* MSG::default(): all fields zero; WM_NULL is message code 0
MsgDefault == Msg("WM_NULL", 0, 0)

QuitMsg == Msg("WM_QUIT", 0, 0)

\* MAKELPARAM(x, y) for 16-bit halves given as unsigned values
PackPos(x, y) == x + y * Word16

\* Signed 16-bit pointer coordinates, as the platform reports them
PosCoords == {-5, 10}

\* The position word for signed 16-bit coordinates: the low half holds sx and
\* the next half sy, each in two's complement; the word is written as the
\* signed value of its 32 bits (`lparam & 0xFFFF` and `(lparam >> 16) &
\* 0xFFFF` read these 32 bits only)
PosWord(sx, sy) == ((sx + Word16) % Word16) + sy * Word16

\* Outcomes of surface.get_current_texture() in GFX::render
RenderResults == {"Ok", "Lost", "OutOfMemory", "Timeout"}

----------------------------------------------------------------------------
(* Keyboard (crate::keyboard, not among the sources: modelled from spec   *)
(* sections 3 and 4.3)                                                     *)

Keyboard_new(ar) == [keys |-> {}, chars |-> <<>>, auto_repeat |-> ar]

auto_repeat_is_enabled(kbd) == kbd.auto_repeat

on_key_pressed(kbd, k) == [kbd EXCEPT !.keys = @ \cup {k}]

on_key_released(kbd, k) == [kbd EXCEPT !.keys = @ \ {k}]

on_char(kbd, c) == [kbd EXCEPT !.chars = Append(@, c)]

clear_state(kbd) == [kbd EXCEPT !.keys = {}, !.chars = <<>>]

----------------------------------------------------------------------------
(* Mouse (crate::mouse, not among the sources: modelled from spec         *)
(* sections 3 and 4.3)                                                     *)

Mouse_new == [in_window |-> FALSE, left |-> FALSE, right |-> FALSE, events |-> <<>>]

MouseEvent(t, x, y, d) == [type |-> t, x |-> x, y |-> y, delta |-> d]

is_in_window(mouse) == mouse.in_window

left_is_pressed(mouse) == mouse.left

right_is_pressed(mouse) == mouse.right

on_mouse_move(mouse, x, y) ==
    [mouse EXCEPT !.events = Append(@, MouseEvent("Move", x, y, 0))]

on_mouse_enter(mouse) == [mouse EXCEPT !.in_window = TRUE]

on_mouse_leave(mouse) == [mouse EXCEPT !.in_window = FALSE]

on_left_pressed(mouse) ==
    [mouse EXCEPT !.left = TRUE, !.events = Append(@, MouseEvent("LeftDown", 0, 0, 0))]

on_left_released(mouse) ==
    [mouse EXCEPT !.left = FALSE, !.events = Append(@, MouseEvent("LeftUp", 0, 0, 0))]

on_right_pressed(mouse) ==
    [mouse EXCEPT !.right = TRUE, !.events = Append(@, MouseEvent("RightDown", 0, 0, 0))]

on_right_released(mouse) ==
    [mouse EXCEPT !.right = FALSE, !.events = Append(@, MouseEvent("RightUp", 0, 0, 0))]

on_wheel_delta(mouse, x, y, d) ==
    [mouse EXCEPT !.events = Append(@, MouseEvent("Wheel", x, y, d))]

----------------------------------------------------------------------------
(* GFX: the surface configuration and the number of surface.configure     *)
(* calls made on it                                                        *)

\* A u32 is kept as its two 16-bit halves, value = hi * 65536 + lo, so that
\* every 32-bit pattern has a representation
U32(hi, lo) == [hi |-> hi, lo |-> lo]

\* `as u32` of an i32: the same 32 bits read as unsigned (two's complement),
\* so -1 becomes 0xFFFFFFFF
as_u32(i) == U32((i \div Word16) % Word16, i % Word16)

\* `v > 0` on a u32
u32_gt_zero(v) == v.hi > 0 \/ v.lo > 0

\* self.gfx = None (Window::new)
GFX_None ==
    [some |-> FALSE,
     config |-> [usage |-> "none", format |-> "none", width |-> U32(0, 0),
                 height |-> U32(0, 0), present_mode |-> "none"],
     configures |-> 0]

\* GFX::new after adapter and device were obtained: surface_config and the first configure
GFX_new(win) ==
    [some |-> TRUE,
     config |-> [usage |-> "RENDER_ATTACHMENT", format |-> "preferred",
                 width |-> as_u32(win.width), height |-> as_u32(win.height),
                 present_mode |-> "Fifo"],
     configures |-> 1]

\* mutation of GFX_resize: `||` in place of `&&`
GFX_resize_or(gfx, new_width, new_height) ==
    IF u32_gt_zero(new_width) \/ u32_gt_zero(new_height)
    THEN [gfx EXCEPT !.config.width = new_width,
                     !.config.height = new_height,
                     !.configures = @ + 1]
    ELSE gfx

GFX_resize(gfx, new_width, new_height) ==
    IF u32_gt_zero(new_width) /\ u32_gt_zero(new_height)
    THEN [gfx EXCEPT !.config.width = new_width,
                     !.config.height = new_height,
                     !.configures = @ + 1]
    ELSE gfx

----------------------------------------------------------------------------
(* Window *)

Window_new(width, height, ar) ==
    [width |-> width, height |-> height, window_handle |-> 0, visible |-> FALSE,
     kbd |-> Keyboard_new(ar), mouse |-> Mouse_new, gfx |-> GFX_None]

\* usize -> u8 try_into: Ok exactly for 0..=255
\* mutation of try_into_u8: the conversion accepts every 16-bit value
try_into_u16(n) == [ok |-> (n >= 0 /\ n < Word16), val |-> n]

try_into_u8(n) == [ok |-> (n >= 0 /\ n <= U8Max), val |-> n]

\* Outcome of one handler invocation: the new Window, whether it panicked,
\* whether it called PostQuitMessage, whether it invoked GFX::render, the
\* capture call it made, and whether it fell through to DefWindowProcW.
Ret(self) ==
    [self |-> self, panic |-> FALSE, quit |-> FALSE, render |-> FALSE,
     capture |-> "none", default |-> FALSE]

Panic(self) == [Ret(self) EXCEPT !.panic = TRUE]

\* mutation of handle_WM_ACTIVATE: a deactivation hides the window
handle_WM_ACTIVATE_wparam(self, m) == Ret([self EXCEPT !.visible = (m.wparam # 0)])

handle_WM_ACTIVATE(self, m) == Ret([self EXCEPT !.visible = TRUE])

\* mutation of handle_WM_KEYDOWN: the previous-state bit test is inverted
handle_WM_KEYDOWN_inverted(self, m) ==
    IF (m.lparam \div PrevStateBit) % 2 = 1 \/ auto_repeat_is_enabled(self.kbd)
    THEN IF try_into_u8(m.wparam).ok
         THEN Ret([self EXCEPT !.kbd = on_key_pressed(@, m.wparam)])
         ELSE Panic(self)
    ELSE Ret(self)

handle_WM_KEYDOWN(self, m) ==
    IF (m.lparam \div PrevStateBit) % 2 = 0 \/ auto_repeat_is_enabled(self.kbd)
    THEN IF try_into_u8(m.wparam).ok
         THEN Ret([self EXCEPT !.kbd = on_key_pressed(@, m.wparam)])
         ELSE Panic(self)
    ELSE Ret(self)

\* mutation of handle_WM_KEYUP: the key-down filter is applied to key-up too
handle_WM_KEYUP_filtered(self, m) ==
    IF (m.lparam \div PrevStateBit) % 2 = 0 \/ auto_repeat_is_enabled(self.kbd)
    THEN IF try_into_u8(m.wparam).ok
         THEN Ret([self EXCEPT !.kbd = on_key_released(@, m.wparam)])
         ELSE Panic(self)
    ELSE Ret(self)

handle_WM_KEYUP(self, m) ==
    IF try_into_u8(m.wparam).ok
    THEN Ret([self EXCEPT !.kbd = on_key_released(@, m.wparam)])
    ELSE Panic(self)

handle_WM_CHAR(self, m) ==
    IF try_into_u8(m.wparam).ok
    THEN Ret([self EXCEPT !.kbd = on_char(@, m.wparam)])
    ELSE Panic(self)

\* mutation of handle_WM_KILLFOCUS: the handler returns 0 without clearing
handle_WM_KILLFOCUS_noclear(self, m) == Ret(self)

handle_WM_KILLFOCUS(self, m) == Ret([self EXCEPT !.kbd = clear_state(@)])

\* mutation of DecodeX: the low half is read as a signed 16-bit value
DecodeX_signed(lparam) ==
    IF (lparam % Word16) >= (Word16 \div 2)
    THEN (lparam % Word16) - Word16
    ELSE lparam % Word16

\* x = lparam & 0xFFFF; y = (lparam >> 16) & 0xFFFF
DecodeX(lparam) == lparam % Word16

DecodeY(lparam) == (lparam \div Word16) % Word16

InsideClient(self, x, y) == x >= 0 /\ y >= 0 /\ x < self.width /\ y < self.height

\* mutation of handle_WM_MOUSEMOVE: drag tracking requires both buttons
handle_WM_MOUSEMOVE_both(self, m) ==
    LET x == DecodeX(m.lparam)
        y == DecodeY(m.lparam)
    IN  IF InsideClient(self, x, y)
        THEN LET moved == [self EXCEPT !.mouse = on_mouse_move(@, x, y)]
             IN  IF ~is_in_window(moved.mouse)
                 THEN [Ret([moved EXCEPT !.mouse = on_mouse_enter(@)])
                          EXCEPT !.capture = "SetCapture"]
                 ELSE Ret(moved)
        ELSE IF left_is_pressed(self.mouse) /\ right_is_pressed(self.mouse)
             THEN Ret([self EXCEPT !.mouse = on_mouse_move(@, x, y)])
             ELSE [Ret([self EXCEPT !.mouse = on_mouse_leave(@)])
                      EXCEPT !.capture = "ReleaseCapture"]

handle_WM_MOUSEMOVE(self, m) ==
    LET x == DecodeX(m.lparam)
        y == DecodeY(m.lparam)
    IN  IF InsideClient(self, x, y)
        THEN LET moved == [self EXCEPT !.mouse = on_mouse_move(@, x, y)]
             IN  IF ~is_in_window(moved.mouse)
                 THEN [Ret([moved EXCEPT !.mouse = on_mouse_enter(@)])
                          EXCEPT !.capture = "SetCapture"]
                 ELSE Ret(moved)
        ELSE IF left_is_pressed(self.mouse) \/ right_is_pressed(self.mouse)
             THEN Ret([self EXCEPT !.mouse = on_mouse_move(@, x, y)])
             ELSE [Ret([self EXCEPT !.mouse = on_mouse_leave(@)])
                      EXCEPT !.capture = "ReleaseCapture"]

handle_WM_MOUSEHWHEEL(self, m) ==
    Ret([self EXCEPT !.mouse =
            on_wheel_delta(@, DecodeX(m.lparam), DecodeY(m.lparam), m.wparam)])

\* mutation of handle_WM_SIZE: the handler also renders a frame after resizing
handle_WM_SIZE_render(self, m) ==
    LET new_width == as_u32(m.rcw)
        new_height == as_u32(m.rch)
    IN  IF self.gfx.some
        THEN [Ret([self EXCEPT !.gfx = GFX_resize(@, new_width, new_height)])
                 EXCEPT !.render = TRUE]
        ELSE Ret(self)

handle_WM_SIZE(self, m) ==
    LET new_width == as_u32(m.rcw)
        new_height == as_u32(m.rch)
    IN  IF self.gfx.some
        THEN Ret([self EXCEPT !.gfx = GFX_resize(@, new_width, new_height)])
        ELSE Ret(self)

\* mutation of handle_WM_PAINT: render is skipped while the window is not visible
handle_WM_PAINT_visible_only(self, m) ==
    IF ~self.gfx.some
    THEN Panic(self)
    ELSE IF ~self.visible
    THEN Ret(self)
    ELSE LET r == [Ret(self) EXCEPT !.render = TRUE]
         IN  CASE m.result = "Ok" -> r
               [] m.result = "Lost" ->
                    [r EXCEPT !.self.gfx =
                        GFX_resize(@, as_u32(self.width), as_u32(self.height))]
               [] m.result = "OutOfMemory" -> [r EXCEPT !.quit = TRUE]
               [] OTHER -> r

\* gfx.as_mut().unwrap() panics on None; otherwise gfx.render() and the match on its result
handle_WM_PAINT(self, m) ==
    IF ~self.gfx.some
    THEN Panic(self)
    ELSE LET r == [Ret(self) EXCEPT !.render = TRUE]
         IN  CASE m.result = "Ok" -> r
               [] m.result = "Lost" ->
                    [r EXCEPT !.self.gfx =
                        GFX_resize(@, as_u32(self.width), as_u32(self.height))]
               [] m.result = "OutOfMemory" -> [r EXCEPT !.quit = TRUE]
               [] OTHER -> r

\* mutation of handle_WM_DESTROY: PostQuitMessage is not called
handle_WM_DESTROY_noquit(self, m) == Ret(self)

handle_WM_DESTROY(self, m) == [Ret(self) EXCEPT !.quit = TRUE]

\* mutation of user_message_handler: focus loss also resets the mouse
user_message_handler_focus(self, m) ==
    CASE m.message = "WM_ACTIVATE" -> handle_WM_ACTIVATE(self, m)
      [] m.message \in {"WM_KEYDOWN", "WM_SYSKEYDOWN"} -> handle_WM_KEYDOWN(self, m)
      [] m.message \in {"WM_KEYUP", "WM_SYSKEYUP"} -> handle_WM_KEYUP(self, m)
      [] m.message = "WM_CHAR" -> handle_WM_CHAR(self, m)
      [] m.message = "WM_KILLFOCUS" ->
           Ret([self EXCEPT !.kbd = clear_state(@), !.mouse = Mouse_new])
      [] m.message = "WM_MOUSEMOVE" -> handle_WM_MOUSEMOVE(self, m)
      [] m.message = "WM_LBUTTONDOWN" -> Ret([self EXCEPT !.mouse = on_left_pressed(@)])
      [] m.message = "WM_RBUTTONDOWN" -> Ret([self EXCEPT !.mouse = on_right_pressed(@)])
      [] m.message = "WM_LBUTTONUP" -> Ret([self EXCEPT !.mouse = on_left_released(@)])
      [] m.message = "WM_RBUTTONUP" -> Ret([self EXCEPT !.mouse = on_right_released(@)])
      [] m.message = "WM_MOUSEHWHEEL" -> handle_WM_MOUSEHWHEEL(self, m)
      [] m.message = "WM_SIZE" -> handle_WM_SIZE(self, m)
      [] m.message = "WM_PAINT" -> handle_WM_PAINT(self, m)
      [] m.message = "WM_DESTROY" -> handle_WM_DESTROY(self, m)
      [] OTHER -> [Ret(self) EXCEPT !.default = TRUE]

user_message_handler(self, m) ==
    CASE m.message = "WM_ACTIVATE" -> handle_WM_ACTIVATE(self, m)
      [] m.message \in {"WM_KEYDOWN", "WM_SYSKEYDOWN"} -> handle_WM_KEYDOWN(self, m)
      [] m.message \in {"WM_KEYUP", "WM_SYSKEYUP"} -> handle_WM_KEYUP(self, m)
      [] m.message = "WM_CHAR" -> handle_WM_CHAR(self, m)
      [] m.message = "WM_KILLFOCUS" -> handle_WM_KILLFOCUS(self, m)
      [] m.message = "WM_MOUSEMOVE" -> handle_WM_MOUSEMOVE(self, m)
      [] m.message = "WM_LBUTTONDOWN" -> Ret([self EXCEPT !.mouse = on_left_pressed(@)])
      [] m.message = "WM_RBUTTONDOWN" -> Ret([self EXCEPT !.mouse = on_right_pressed(@)])
      [] m.message = "WM_LBUTTONUP" -> Ret([self EXCEPT !.mouse = on_left_released(@)])
      [] m.message = "WM_RBUTTONUP" -> Ret([self EXCEPT !.mouse = on_right_released(@)])
      [] m.message = "WM_MOUSEHWHEEL" -> handle_WM_MOUSEHWHEEL(self, m)
      [] m.message = "WM_SIZE" -> handle_WM_SIZE(self, m)
      [] m.message = "WM_PAINT" -> handle_WM_PAINT(self, m)
      [] m.message = "WM_DESTROY" -> handle_WM_DESTROY(self, m)
      [] OTHER -> [Ret(self) EXCEPT !.default = TRUE]


\* Window::wndproc after WM_NCCREATE stored the instance pointer: every other
\* message goes to user_message_handler; before that, to DefWindowProcW.
\* mutation of wndproc: a Resize stores the client size in the Window
wndproc_stores(self, m) ==
    IF self.window_handle # 0
    THEN LET r == user_message_handler(self, m)
         IN  IF m.message = "WM_SIZE"
             THEN [r EXCEPT !.self.width = m.rcw, !.self.height = m.rch]
             ELSE r
    ELSE [Ret(self) EXCEPT !.default = TRUE]

wndproc(self, m) ==
    IF self.window_handle # 0
    THEN user_message_handler(self, m)
    ELSE [Ret(self) EXCEPT !.default = TRUE]

----------------------------------------------------------------------------
(* Inputs of the environment *)

\* Messages posted to the queue while App::run pumps it
LoopMessages ==
    { Msg("WM_ACTIVATE", 1, 0),
      Msg("WM_KEYDOWN", 300, 0),
      Msg("WM_TIMER", 0, 0),
      Msg("WM_DESTROY", 0, 0),
      SizeMsg(640, 480),
      QuitMsg }
    \cup { PaintMsg(r) : r \in RenderResults }

KbdMessages ==
    { Msg("WM_KEYDOWN", 65, 0),
      Msg("WM_KEYDOWN", 65, PrevStateBit),
      Msg("WM_KEYDOWN", 66, 0),
      Msg("WM_SYSKEYDOWN", 18, 0),
      Msg("WM_KEYUP", 65, 0),
      Msg("WM_KEYUP", 66, 0),
      Msg("WM_SYSKEYUP", 18, 0),
      Msg("WM_CHAR", 97, 0),
      Msg("WM_KILLFOCUS", 0, 0) }

\* (10,10) is inside the 800x600 client area; (65531,10) is the position word
\* of (-5,10); (10,700) is below the client area
MouseMessages ==
    { Msg("WM_MOUSEMOVE", 0, PackPos(10, 10)),
      Msg("WM_MOUSEMOVE", 0, PackPos(65531, 10)),
      Msg("WM_MOUSEMOVE", 0, PackPos(10, 700)),
      Msg("WM_LBUTTONDOWN", 0, 0),
      Msg("WM_LBUTTONUP", 0, 0),
      Msg("WM_RBUTTONDOWN", 0, 0),
      Msg("WM_RBUTTONUP", 0, 0),
      Msg("WM_MOUSEHWHEEL", 120, PackPos(10, 10)) }

\* Resize to a client area smaller than the 800x600 of construction, and
\* moves to (10,10), inside both, to (700,10), inside 800x600 only, and to
\* (900,10), outside both
MouseSizeMessages ==
    { SizeMsg(640, 480),
      Msg("WM_MOUSEMOVE", 0, PackPos(10, 10)),
      Msg("WM_MOUSEMOVE", 0, PackPos(700, 10)),
      Msg("WM_MOUSEMOVE", 0, PackPos(900, 10)),
      Msg("WM_LBUTTONDOWN", 0, 0) }

\* Key messages with and without the previous-state bit (bit 30 of lparam),
\* for key codes that fit in a u8 (65, 18) and for codes that do not (300,
\* 8364)
KeyMessages ==
    { Msg("WM_KEYDOWN", 65, 0),
      Msg("WM_KEYDOWN", 65, PrevStateBit),
      Msg("WM_SYSKEYDOWN", 18, PrevStateBit),
      Msg("WM_KEYUP", 65, 0),
      Msg("WM_KEYUP", 65, PrevStateBit),
      Msg("WM_KEYDOWN", 300, 0),
      Msg("WM_KEYDOWN", 300, PrevStateBit),
      Msg("WM_SYSKEYUP", 300, PrevStateBit),
      Msg("WM_CHAR", 97, 0),
      Msg("WM_CHAR", 8364, 0) }

\* Resize to a smaller and to a larger client area than the 800x600 of
\* construction, moves to (700,10) and (900,10), Paint with and without a
\* lost surface
DimsMessages ==
    { SizeMsg(640, 480),
      SizeMsg(1024, 768),
      Msg("WM_MOUSEMOVE", 0, PackPos(700, 10)),
      Msg("WM_MOUSEMOVE", 0, PackPos(900, 10)),
      PaintMsg("Lost"),
      PaintMsg("Ok") }

\* Moves and wheel messages at every combination of the coordinates, and a
\* button press (moves outside the client area are recorded only while a
\* button is held)
PosMessages ==
    { Msg("WM_MOUSEMOVE", 0, PosWord(sx, sy)) : sx \in PosCoords, sy \in PosCoords }
    \cup { Msg("WM_MOUSEHWHEEL", 120, PosWord(sx, sy)) : sx \in PosCoords, sy \in PosCoords }
    \cup { Msg("WM_LBUTTONDOWN", 0, 0) }

\* Focus lost, among messages that set up mouse, keyboard, visibility and
\* surface state before it
FocusMessages ==
    { Msg("WM_KILLFOCUS", 0, 0),
      Msg("WM_LBUTTONDOWN", 0, 0),
      Msg("WM_RBUTTONDOWN", 0, 0),
      Msg("WM_MOUSEMOVE", 0, PackPos(10, 10)),
      Msg("WM_KEYDOWN", 65, 0),
      Msg("WM_ACTIVATE", 1, 0),
      SizeMsg(640, 480) }

\* Activation (wparam 1), deactivation (wparam 0), focus lost, Resize to an
\* empty client area, Destroy
VisMessages ==
    { Msg("WM_ACTIVATE", 1, 0),
      Msg("WM_ACTIVATE", 0, 0),
      Msg("WM_KILLFOCUS", 0, 0),
      SizeMsg(0, 0),
      Msg("WM_DESTROY", 0, 0) }

\* Messages the platform can hand to the window procedure while
\* Window::initialize is still running
EarlyMessages ==
    { Msg("WM_ACTIVATE", 1, 0),
      SizeMsg(640, 480),
      SizeMsg(0, 0),
      PaintMsg("Ok"),
      PaintMsg("Lost") }

\* What GFX::new can meet: success, request_adapter returning None,
\* request_device returning Err
GfxOutcomes == {"ok", "no_adapter", "device_failed"}

\* rc.right - rc.left of the client rectangle, an i32: negative, zero, positive
ClientWidths == {-1, 0, 640}

\* rc.bottom - rc.top of the client rectangle
ClientHeights == {-1, 0, 480}

GfxMessages ==
    { SizeMsg(w, h) : w \in ClientWidths, h \in ClientHeights }
    \cup { PaintMsg(r) : r \in RenderResults }

\* What the platform can report to Window::initialize: success,
\* AdjustWindowRect failing, CreateWindowExW returning no handle,
\* request_adapter returning None, request_device returning Err
InitOutcomes == {"ok", "adjust_failed", "create_failed", "no_adapter", "device_failed"}

\* After CreateWindowExW returned no handle, GFX::new runs on the window
\* that is not there and only debug_assert!(window_handle != 0) looks at the
\* result: a panic (debug build, or an unwrap in GFX::new), or Ok(()) and the
\* message loop (release build)
CreateFailedOutcomes == {"panic", "loop"}

\* Messages that reach the thread's queue when there is no window
ThreadMessages == { Msg("WM_TIMER", 0, 0), QuitMsg }

\* A panic leaving the extern "system" window procedure is undefined
\* behaviour: the process is terminated, or the unwind is caught by the
\* platform's callback frame and the pump goes on.
PanicOutcomes == {"abort", "swallowed"}

----------------------------------------------------------------------------
(* Initial state: App::new() *)

IterNone == [dispatched |-> 0, paints |-> 0, renders |-> 0, ended |-> FALSE]

RenderCtxNone == [pending |-> 0, visible |-> FALSE, draining |-> FALSE]

Init ==
    /\ \E ar \in BOOLEAN : window = Window_new(AppWidth, AppHeight, ar)
    /\ queue = <<>>
    /\ message = MsgDefault
    /\ pc = "init"
    /\ posted = 0
    /\ log = <<>>
    /\ renders = 0
    /\ capture = [held |-> FALSE, sets |-> 0, releases |-> 0]
    /\ iter = IterNone
    /\ renderCtx = RenderCtxNone
    /\ initResult = "none"
    /\ lastPanic = FALSE

----------------------------------------------------------------------------
(* Window::initialize, called first by App::run *)

\* mutation of Initialize: `self.gfx = Some(gfx)` is missing
Initialize_nogfx ==
    /\ pc = "init"
    /\ \E outcome \in InitOutcomes, activated \in BOOLEAN :
         /\ initResult' = outcome
         /\ CASE outcome = "adjust_failed" ->
                /\ pc' = "error"
                /\ UNCHANGED <<window, log>>
           [] outcome \in {"no_adapter", "device_failed"} ->
                \* .unwrap() in GFX::new
                /\ pc' = "init_panic"
                /\ window' = [window EXCEPT !.window_handle = 1]
                /\ UNCHANGED log
           [] outcome = "create_failed" ->
                /\ \E after \in CreateFailedOutcomes :
                      IF after = "panic"
                      THEN pc' = "init_panic" /\ window' = window
                      ELSE pc' = "loop" /\ window' = window
                /\ UNCHANGED log
           [] OTHER ->
                LET created == [window EXCEPT !.window_handle = 1]
                    shown == IF activated
                             THEN wndproc(created, Msg("WM_ACTIVATE", 1, 0)).self
                             ELSE created
                IN  /\ window' = shown
                    /\ log' = IF activated THEN <<Msg("WM_ACTIVATE", 1, 0)>> ELSE <<>>
                    /\ pc' = "loop"
    /\ UNCHANGED <<queue, message, posted, renders, capture, iter, renderCtx, lastPanic>>

Initialize ==
    /\ pc = "init"
    /\ \E outcome \in InitOutcomes, activated \in BOOLEAN :
         /\ initResult' = outcome
         /\ CASE outcome = "adjust_failed" ->
                /\ pc' = "error"
                /\ UNCHANGED <<window, log>>
           [] outcome \in {"no_adapter", "device_failed"} ->
                \* .unwrap() in GFX::new
                /\ pc' = "init_panic"
                /\ window' = [window EXCEPT !.window_handle = 1]
                /\ UNCHANGED log
           [] outcome = "create_failed" ->
                /\ \E after \in CreateFailedOutcomes :
                      IF after = "panic"
                      THEN pc' = "init_panic" /\ window' = window
                      ELSE pc' = "loop" /\ window' = [window EXCEPT !.gfx = GFX_new(window)]
                /\ UNCHANGED log
           [] OTHER ->
                \* CreateWindowExW: WM_NCCREATE stores the handle; the
                \* platform may activate the new window right away
                LET created == [window EXCEPT !.window_handle = 1]
                    shown == IF activated
                             THEN wndproc(created, Msg("WM_ACTIVATE", 1, 0)).self
                             ELSE created
                IN  /\ window' = [shown EXCEPT !.gfx = GFX_new(shown)]
                    /\ log' = IF activated THEN <<Msg("WM_ACTIVATE", 1, 0)>> ELSE <<>>
                    /\ pc' = "loop"
    /\ UNCHANGED <<queue, message, posted, renders, capture, iter, renderCtx, lastPanic>>

----------------------------------------------------------------------------
(* DispatchMessageW / a direct call of the window procedure *)

CaptureAfter(c, call) ==
    CASE call = "SetCapture" -> [c EXCEPT !.held = TRUE, !.sets = @ + 1]
      [] call = "ReleaseCapture" -> [c EXCEPT !.held = FALSE, !.releases = @ + 1]
      [] OTHER -> c

\* m is handled by the window procedure; q is the queue m was taken from,
\* without m; next is where App::run goes on afterwards
Deliver(m, q, next) ==
    LET r == wndproc(window, m)
    IN  /\ log' = Append(log, m)
        /\ window' = r.self
        /\ queue' = IF r.quit THEN Append(q, QuitMsg) ELSE q
        /\ renders' = IF r.render THEN renders + 1 ELSE renders
        /\ renderCtx' = IF r.render
                        THEN [pending |-> Len(q), visible |-> window.visible,
                              draining |-> (pc = "drain")]
                        ELSE renderCtx
        /\ capture' = CaptureAfter(capture, r.capture)
        /\ lastPanic' = r.panic
        /\ UNCHANGED initResult
        /\ IF r.panic
           THEN \E o \in PanicOutcomes : pc' = IF o = "abort" THEN "aborted" ELSE next
           ELSE pc' = next

----------------------------------------------------------------------------
(* App::run, the message pump *)

\* The environment posts a message to the thread's queue
Post ==
    /\ pc \in {"loop", "drain", "returned"}
    /\ posted < MaxPosted
    /\ \E m \in (IF window.window_handle # 0 THEN LoopMessages ELSE ThreadMessages) :
          queue' = Append(queue, m)
    /\ posted' = posted + 1
    /\ UNCHANGED <<window, message, pc, log, renders, capture, iter, renderCtx,
                   initResult, lastPanic>>

\* mutation of GetMessageStep: the WM_QUIT test is missing
GetMessageStep_noquit ==
    /\ pc = "loop"
    /\ ~window.visible
    /\ queue # <<>>
    /\ message' = Head(queue)
    /\ Deliver(Head(queue), Tail(queue), "loop")
    /\ UNCHANGED <<posted, iter>>

\* mutation of GetMessageStep: a render pass follows the dispatch
GetMessageStep_render ==
    /\ pc = "loop"
    /\ ~window.visible
    /\ queue # <<>>
    /\ message' = Head(queue)
    /\ IF Head(queue).message = "WM_QUIT"
       THEN /\ pc' = "returned"
            /\ queue' = Tail(queue)
            /\ UNCHANGED <<window, log, renders, capture, renderCtx, initResult, lastPanic>>
       ELSE /\ log' = Append(log, Head(queue))
            /\ window' = wndproc(window, Head(queue)).self
            /\ queue' = Tail(queue)
            /\ renders' = renders + 1
            /\ pc' = "loop"
            /\ UNCHANGED <<capture, renderCtx, initResult, lastPanic>>
    /\ UNCHANGED <<posted, iter>>

\* mutation of GetMessageStep: the blocking wait does not depend on visible
GetMessageStep_always ==
    /\ pc = "loop"
    /\ queue # <<>>
    /\ message' = Head(queue)
    /\ IF Head(queue).message = "WM_QUIT"
       THEN /\ pc' = "returned"
            /\ queue' = Tail(queue)
            /\ UNCHANGED <<window, log, renders, capture, renderCtx, initResult, lastPanic>>
       ELSE Deliver(Head(queue), Tail(queue), "loop")
    /\ UNCHANGED <<posted, iter>>

\* else-branch of the loop body: GetMessageW blocks until a message is there
GetMessageStep ==
    /\ pc = "loop"
    /\ ~window.visible
    /\ queue # <<>>
    /\ message' = Head(queue)
    /\ IF Head(queue).message = "WM_QUIT"
       THEN /\ pc' = "returned"
            /\ queue' = Tail(queue)
            /\ UNCHANGED <<window, log, renders, capture, renderCtx, initResult, lastPanic>>
       ELSE Deliver(Head(queue), Tail(queue), "loop")
    /\ UNCHANGED <<posted, iter>>

\* `if self.window.visible` holds: the while loop over PeekMessageW is entered
EnterDrain ==
    /\ pc = "loop"
    /\ window.visible
    /\ pc' = "drain"
    /\ iter' = IterNone
    /\ UNCHANGED <<window, queue, message, posted, log, renders, capture, renderCtx,
                   initResult, lastPanic>>

\* mutation of PeekStep: the WM_QUIT test is missing
PeekStep_noquit ==
    /\ pc = "drain"
    /\ queue # <<>>
    /\ message' = Head(queue)
    /\ Deliver(Head(queue), Tail(queue), "drain")
    /\ iter' = [iter EXCEPT !.dispatched = @ + 1]
    /\ UNCHANGED posted

\* One turn of the while loop: PeekMessageW removed a message
PeekStep ==
    /\ pc = "drain"
    /\ queue # <<>>
    /\ message' = Head(queue)
    /\ IF Head(queue).message = "WM_QUIT"
       THEN /\ pc' = "returned"
            /\ queue' = Tail(queue)
            /\ UNCHANGED <<window, log, renders, capture, renderCtx, iter,
                            initResult, lastPanic>>
       ELSE /\ Deliver(Head(queue), Tail(queue), "drain")
            /\ iter' = [iter EXCEPT
                          !.dispatched = @ + 1,
                          !.paints = IF Head(queue).message = "WM_PAINT" THEN @ + 1 ELSE @,
                          !.renders = @ + (renders' - renders)]
    /\ UNCHANGED posted

\* mutation of DrainEnd: the `self.render()?` call is active
DrainEnd_render ==
    /\ pc = "drain"
    /\ queue = <<>>
    /\ pc' = "loop"
    /\ renders' = renders + 1
    /\ renderCtx' = [pending |-> 0, visible |-> window.visible, draining |-> FALSE]
    /\ iter' = [iter EXCEPT !.ended = TRUE, !.renders = @ + 1]
    /\ UNCHANGED <<window, queue, message, posted, log, capture, initResult, lastPanic>>

\* PeekMessageW found the queue empty: the while loop ends, the render call
\* is commented out, and the outer loop starts over
DrainEnd ==
    /\ pc = "drain"
    /\ queue = <<>>
    /\ pc' = "loop"
    /\ iter' = [iter EXCEPT !.ended = TRUE]
    /\ UNCHANGED <<window, queue, message, posted, log, renders, capture, renderCtx,
                   initResult, lastPanic>>

Next ==
    \/ Initialize
    \/ Post
    \/ GetMessageStep
    \/ EnterDrain
    \/ PeekStep
    \/ DrainEnd

Spec == Init /\ [][Next]_vars

----------------------------------------------------------------------------
(* The window procedure driven directly, one message class at a time *)

Send(msgs, max) ==
    /\ pc = "loop"
    /\ window.window_handle # 0
    /\ posted < max
    /\ \E m \in msgs : Deliver(m, queue, "loop")
    /\ posted' = posted + 1
    /\ UNCHANGED <<message, iter>>

SendKbd == Send(KbdMessages, MaxKbdMsgs)

SendMouse == Send(MouseMessages, MaxMouseMsgs)

SendGfx == Send(GfxMessages, MaxGfxMsgs)

NextKbd ==
    \/ Initialize
    \/ SendKbd

NextMouse ==
    \/ Initialize
    \/ SendMouse

NextGfx ==
    \/ Initialize
    \/ SendGfx

\* Mouse and Resize messages sent to the window procedure
SendMouseSize == Send(MouseSizeMessages, MaxMouseSizeMsgs)

NextMouseSize ==
    \/ Initialize
    \/ SendMouseSize

SpecMouseSize == Init /\ [][NextMouseSize]_vars

\* Activation, focus, Resize and Destroy messages sent to the window procedure
SendVis == Send(VisMessages, MaxVisMsgs)

NextVis ==
    \/ Initialize
    \/ SendVis

SpecVis == Init /\ [][NextVis]_vars

\* Key and character messages, representable or not, sent to the window
\* procedure
SendKey == Send(KeyMessages, MaxKeyMsgs)

NextKey ==
    \/ Initialize
    \/ SendKey

SpecKey == Init /\ [][NextKey]_vars

\* Window::initialize in its steps. CreateWindowExW: WM_NCCREATE stores the
\* handle and the instance pointer; gfx is still None
CreateWindowStep ==
    /\ pc = "init"
    /\ window' = [window EXCEPT !.window_handle = 1]
    /\ pc' = "creating"
    /\ UNCHANGED <<queue, message, posted, log, renders, capture, iter, renderCtx,
                   initResult, lastPanic>>

\* The platform calls the window procedure of the created window before
\* initialize has stored the GFX
SendEarly ==
    /\ pc = "creating"
    /\ posted < MaxEarlyMsgs
    /\ \E m \in EarlyMessages : Deliver(m, queue, "creating")
    /\ posted' = posted + 1
    /\ UNCHANGED <<message, iter>>

\* GFX::new, `self.gfx = Some(gfx)` and Ok(()); the unwraps of GFX::new panic
FinishInit ==
    /\ pc = "creating"
    /\ \E outcome \in GfxOutcomes :
         /\ initResult' = outcome
         /\ IF outcome = "ok"
            THEN /\ window' = [window EXCEPT !.gfx = GFX_new(window)]
                 /\ pc' = "loop"
            ELSE /\ window' = window
                 /\ pc' = "init_panic"
    /\ UNCHANGED <<queue, message, posted, log, renders, capture, iter, renderCtx,
                   lastPanic>>

NextInit ==
    \/ CreateWindowStep
    \/ SendEarly
    \/ FinishInit

SpecInit == Init /\ [][NextInit]_vars

\* Focus-lost and the messages around it, sent to the window procedure
SendFocus == Send(FocusMessages, MaxFocusMsgs)

NextFocus ==
    \/ Initialize
    \/ SendFocus

SpecFocus == Init /\ [][NextFocus]_vars

\* Resize, mouse-move and Paint messages sent to the window procedure
SendDims == Send(DimsMessages, MaxDimsMsgs)

NextDims ==
    \/ Initialize
    \/ SendDims

SpecDims == Init /\ [][NextDims]_vars

\* Mouse-move and wheel messages with negative coordinates sent to the
\* window procedure
SendPos == Send(PosMessages, MaxPosMsgs)

NextPos ==
    \/ Initialize
    \/ SendPos

SpecPos == Init /\ [][NextPos]_vars

SpecKbd == Init /\ [][NextKbd]_vars

SpecMouse == Init /\ [][NextMouse]_vars

SpecGfx == Init /\ [][NextGfx]_vars


----------------------------------------------------------------------------
(* Properties of the message pump, under Spec *)

Last(s) == s[Len(s)]

\* A step of App::run that removes a message from the queue (GetMessageW
\* returned, or PeekMessageW returned true)
TakeStep ==
    /\ posted' = posted
    /\ queue # <<>>
    /\ \/ pc = "loop" /\ ~window.visible
       \/ pc = "drain"

\* C1: once initialized, App::run returns success as soon as it takes a quit
\* signal, from the blocking wait as well as in the middle of a drain batch;
\* the quit message is never handed to the Window, and after the return no
\* message is dispatched and no render happens, whatever is still queued.
C1_QuitEndsRun ==
    /\ [](pc = "returned" => message.message = "WM_QUIT")
    /\ [](\A i \in 1..Len(log) : log[i].message # "WM_QUIT")
    /\ [][(TakeStep /\ Head(queue).message = "WM_QUIT")
            => (pc' = "returned" /\ log' = log /\ renders' = renders /\ window' = window)]_vars
    /\ [][pc = "returned"
            => (pc' = "returned" /\ log' = log /\ renders' = renders /\ window' = window)]_vars

\* C1 witness: run has returned out of a drain batch in which a message was
\* already dispatched, and a message is still queued behind the quit signal
C1_Witness ==
    /\ pc = "returned"
    /\ window.visible
    /\ iter.dispatched > 0
    /\ queue # <<>>

C3_Original ==
    (renders > 0 /\ renderCtx.visible) => renderCtx.pending = 0

\* C3 amended: while the window is visible, every render is made by the
\* dispatch of a Paint message inside the drain batch, one render per Paint
\* message, whether or not messages remain queued behind it.
C3_RenderOnlyInPaintDispatch ==
    [][(window.visible /\ renders' # renders)
         => /\ pc = "drain"
            /\ queue # <<>>
            /\ Head(queue).message = "WM_PAINT"
            /\ log' = Append(log, Head(queue))
            /\ renders' = renders + 1]_vars

\* C3 witness: a render was made in a drain batch with messages still queued
C3_Witness ==
    /\ renders > 0
    /\ renderCtx.visible
    /\ renderCtx.draining
    /\ renderCtx.pending > 0

\* C4 as stated: while the visibility flag is false, no iteration of the
\* loop leads to a render, whatever message it dispatches.
C4_Original ==
    [][(pc = "loop" /\ ~window.visible) => renders' = renders]_vars

\* C4 amended: while the visibility flag is false, an iteration takes one
\* message, dispatches it and loops again; a render takes place exactly when
\* that message is Paint (one render), and for no other message.
C4_BlockingIteration ==
    [][(pc = "loop" /\ ~window.visible /\ TakeStep /\ Head(queue).message # "WM_QUIT")
         => /\ log' = Append(log, Head(queue))
            /\ renders' = renders + (IF Head(queue).message = "WM_PAINT" THEN 1 ELSE 0)
            /\ pc' \in {"loop", "aborted"}]_vars

\* C4 witness: a render was made while the window was not visible
C4_Witness ==
    /\ pc = "loop"
    /\ ~window.visible
    /\ renders > 0
    /\ ~renderCtx.visible

KeyOrCharMessages == {"WM_KEYDOWN", "WM_SYSKEYDOWN", "WM_KEYUP", "WM_SYSKEYUP", "WM_CHAR"}

\* C5 as stated: after initialization the loop never ends by an abort raised
\* inside a message handler (nor by an error return).
C5_Original ==
    pc \notin {"aborted"} /\ (posted > 0 => pc # "error")

\* C5 amended: after initialization App::run returns only success, on a quit
\* signal, and never an error; the loop otherwise ends only by the panic of
\* the parameter conversion of a key-down, key-up or character message whose
\* parameter is not representable; the Paint handler raises none.
C5_ExitPaths ==
    /\ pc = "returned" => message.message = "WM_QUIT"
    /\ posted > 0 => pc \notin {"error", "init_panic"}
    /\ pc = "aborted" => /\ message.message \in KeyOrCharMessages
                         /\ ~try_into_u8(message.wparam).ok
                         /\ Last(log) = message

\* C5 witness: the loop was ended by the panic of a key code conversion
C5_Witness ==
    /\ pc = "aborted"
    /\ message.message = "WM_KEYDOWN"
    /\ message.wparam > U8Max


----------------------------------------------------------------------------
(* Properties of the surface configuration *)

\* The window procedure has just handled a message of class t
Handled(t) ==
    /\ pc = "loop"
    /\ log' # log
    /\ Last(log').message = t

\* C6: a resize with a zero width or a zero height leaves the whole
\* configuration as it was and does not reconfigure the surface; a resize
\* with positive width and height sets exactly these two fields of the
\* configuration and reconfigures the surface once.
C6_ResizeContract ==
    [][Handled("WM_SIZE")
         => LET w == Last(log').rcw
                h == Last(log').rch
            IN  IF w = 0 \/ h = 0
                THEN window'.gfx = window.gfx
                ELSE /\ window'.gfx.config =
                          [window.gfx.config EXCEPT !.width = as_u32(w),
                                                    !.height = as_u32(h)]
                     /\ window'.gfx.configures = window.gfx.configures + 1]_vars

\* C6 witness: the surface was resized to 640x480 and a later resize with a
\* zero dimension left that configuration in place
C6_Witness ==
    /\ log # <<>>
    /\ Last(log).message = "WM_SIZE"
    /\ Last(log).rcw = 0
    /\ Last(log).rch = 480
    /\ window.gfx.config.width = U32(0, 640)
    /\ window.gfx.config.height = U32(0, 480)
    /\ window.gfx.configures = 2

\* Client-area size reported by the most recent Resize message of l, or the
\* creation dimensions when l has none
LastClientSize(l) ==
    LET sizes == {i \in 1..Len(l) : l[i].message = "WM_SIZE"}
    IN  IF sizes = {}
        THEN <<window.width, window.height>>
        ELSE LET i == CHOOSE j \in sizes : \A k \in sizes : k <= j
             IN  <<l[i].rcw, l[i].rch>>

\* C7 as stated: in every state after initialization the configured width
\* and height equal the client-area size of the most recent Resize message
\* (the creation size if there was none), whatever Paint outcomes occurred.
C7_Original ==
    window.gfx.some
        => <<window.gfx.config.width, window.gfx.config.height>> =
             <<as_u32(LastClientSize(log)[1]), as_u32(LastClientSize(log)[2])>>

----------------------------------------------------------------------------
(* Properties of the keyboard state, under SpecKbd *)

IsKeyDown(m) == m.message \in {"WM_KEYDOWN", "WM_SYSKEYDOWN"}

IsKeyUp(m) == m.message \in {"WM_KEYUP", "WM_SYSKEYUP"}

\* No key-down of l carries the auto-repeat (previous state) flag
NoRepeatFlag(l) ==
    \A i \in 1..Len(l) : IsKeyDown(l[i]) => (l[i].lparam \div PrevStateBit) % 2 = 0

\* Keys with a key-down in l that is followed neither by a key-up of the same
\* key nor by a focus-lost message
ExpectedPressed(l) ==
    { k \in { l[i].wparam : i \in 1..Len(l) } :
        \E i \in 1..Len(l) :
            /\ IsKeyDown(l[i])
            /\ l[i].wparam = k
            /\ \A j \in (i + 1)..Len(l) :
                  /\ l[j].message # "WM_KILLFOCUS"
                  /\ ~(IsKeyUp(l[j]) /\ l[j].wparam = k) }

\* C8: after any sequence of key-down (none flagged as auto-repeat), key-up
\* and focus-lost messages, system-key variants included, the pressed-set is
\* exactly the set of keys whose most recent event is a key-down that came
\* after the last focus-lost.
C8_PressedSet ==
    (pc = "loop" /\ NoRepeatFlag(log)) => window.kbd.keys = ExpectedPressed(log)

\* C8 witness: a key went down before a focus-lost, a system key went down
\* after it, and only the latter is in the pressed-set
C8_Witness ==
    /\ NoRepeatFlag(log)
    /\ Len(log) >= 3
    /\ \E i, j \in 1..Len(log) :
          /\ i < j
          /\ log[i].message = "WM_KEYDOWN"
          /\ log[j].message = "WM_KILLFOCUS"
    /\ Last(log).message = "WM_SYSKEYDOWN"
    /\ window.kbd.keys = {18}

\* C9: after a focus-lost message the pressed-set and the character queue are
\* empty, whatever was pressed or queued before.
C9_FocusLostClears ==
    (log # <<>> /\ Last(log).message = "WM_KILLFOCUS")
        => (window.kbd.keys = {} /\ window.kbd.chars = <<>>)

\* C9 witness: focus was lost after a key went down and a character was queued
C9_Witness ==
    /\ Len(log) >= 3
    /\ Last(log).message = "WM_KILLFOCUS"
    /\ log[Len(log) - 1].message = "WM_CHAR"
    /\ log[Len(log) - 2].message = "WM_KEYDOWN"
    /\ log[Len(log) - 2].lparam = 0
    /\ window.kbd.keys = {}

----------------------------------------------------------------------------
(* Properties of the mouse state, under SpecMouse *)

\* C10: a mouse-move decoded outside the client rectangle, with neither
\* button pressed, marks the mouse as left, releases capture and records no
\* move; with the left or the right button pressed it records the move and
\* leaves the in-window flag as it was.
C10_OutsideMove ==
    [][(Handled("WM_MOUSEMOVE")
          /\ ~InsideClient(window, DecodeX(Last(log').lparam), DecodeY(Last(log').lparam)))
         => LET x == DecodeX(Last(log').lparam)
                y == DecodeY(Last(log').lparam)
            IN  IF window.mouse.left \/ window.mouse.right
                THEN /\ window'.mouse.events =
                          Append(window.mouse.events, MouseEvent("Move", x, y, 0))
                     /\ window'.mouse.in_window = window.mouse.in_window
                     /\ capture' = capture
                ELSE /\ window'.mouse.in_window = FALSE
                     /\ window'.mouse.events = window.mouse.events
                     /\ ~capture'.held
                     /\ capture'.releases = capture.releases + 1]_vars

\* C10 witness: the pointer entered at (10,10), was dragged to (-5,10) with
\* the left button held (move recorded), the button was released, and the
\* next move to (-5,10) marked the mouse as left without recording a move
C10_Witness ==
    /\ window.mouse.events =
         << MouseEvent("Move", 10, 10, 0), MouseEvent("LeftDown", 0, 0, 0),
            MouseEvent("Move", 65531, 10, 0), MouseEvent("LeftUp", 0, 0, 0) >>
    /\ Last(log) = Msg("WM_MOUSEMOVE", 0, PackPos(65531, 10))
    /\ ~window.mouse.in_window
    /\ ~capture.held
    /\ capture.sets = 1
    /\ capture.releases = 1

----------------------------------------------------------------------------
(* Failure of initialization, under Spec *)

\* C11 as stated: whenever initialization has failed (the window rectangle
\* could not be adjusted, the native window was not created, no graphics
\* adapter was found, or the device request failed), App::run has returned
\* the initialization error to its caller and has not entered the message
\* loop.
C11_Original ==
    initResult \in (InitOutcomes \ {"ok"}) => pc = "error"

----------------------------------------------------------------------------
(* Recovery from a lost surface, under Spec *)

\* C12 as stated: when the render of a Paint message reports SurfaceLost, the
\* handler reconfigures the surface at once, and the configured width and
\* height are then the current client-area size, that of the most recent
\* Resize message if there was one.
C12_Original ==
    [][ ( /\ log' # log
          /\ Last(log').message = "WM_PAINT"
          /\ Last(log').result = "Lost"
          /\ window.gfx.some )
        => ( /\ window'.gfx.configures = window.gfx.configures + 1
             /\ window'.gfx.config.width = as_u32(LastClientSize(log)[1])
             /\ window'.gfx.config.height = as_u32(LastClientSize(log)[2]) )
      ]_vars

----------------------------------------------------------------------------
(* Render errors and Destroy, under Spec *)

\* The window procedure has just handled message m, taken from the queue
Dispatched(m) ==
    /\ TakeStep
    /\ Head(queue) = m
    /\ log' = Append(log, m)

\* C13: a Paint whose render reports OutOfMemory does not end the loop: the
\* handler posts a quit signal behind the queued messages and leaves the
\* Window unchanged, and App::run returns success when it takes that signal;
\* Destroy does the same; a Paint whose render reports any other error leaves
\* the Window and the surface state unchanged and posts no quit signal.
C13_OutOfMemoryPostsQuit ==
    /\ [][ (window.gfx.some /\ window.window_handle # 0 /\
            (Dispatched(PaintMsg("OutOfMemory")) \/ Dispatched(Msg("WM_DESTROY", 0, 0))))
           => ( /\ pc' = pc
                /\ window' = window
                /\ queue' = Append(Tail(queue), QuitMsg) ) ]_vars
    /\ [][ (window.gfx.some /\ window.window_handle # 0 /\ Dispatched(PaintMsg("Timeout")))
           => ( /\ pc' = pc
                /\ window' = window
                /\ queue' = Tail(queue) ) ]_vars
    /\ [][ (TakeStep /\ Head(queue) = QuitMsg) => pc' = "returned" ]_vars

\* C13 witness: the only message posted was a Paint whose render reported
\* OutOfMemory, and App::run has returned on the quit signal of its handler
C13_Witness ==
    /\ pc = "returned"
    /\ posted = 1
    /\ log # <<>>
    /\ Last(log) = PaintMsg("OutOfMemory")
    /\ message = QuitMsg

----------------------------------------------------------------------------
(* Mouse moves after a Resize, under SpecMouseSize *)

\* (x, y) lies in the client rectangle as the most recent Resize message of l
\* reported it (the construction size if l has none)
InsideCurrentClient(l, x, y) ==
    x >= 0 /\ y >= 0 /\ x < LastClientSize(l)[1] /\ y < LastClientSize(l)[2]

\* C14 as stated: a mouse move inside the client rectangle, whose size is the
\* client-area size at the time of the message (after a Resize, the resized
\* one), records the move, and marks the mouse entered and begins capture
\* exactly if it was not in-window before; a position outside that rectangle
\* is never treated as inside.
C14_Original ==
    [][ Handled("WM_MOUSEMOVE")
        => LET x == DecodeX(Last(log').lparam)
               y == DecodeY(Last(log').lparam)
           IN  IF InsideCurrentClient(log, x, y)
               THEN /\ window'.mouse.events =
                         Append(window.mouse.events, MouseEvent("Move", x, y, 0))
                    /\ window'.mouse.in_window
                    /\ capture'.sets =
                         capture.sets + (IF window.mouse.in_window THEN 0 ELSE 1)
               ELSE /\ capture'.sets = capture.sets
                    /\ (window'.mouse.in_window => window.mouse.in_window)
                    /\ (window'.mouse.events # window.mouse.events
                          => (window.mouse.left \/ window.mouse.right))
      ]_vars

----------------------------------------------------------------------------
(* Visibility, under SpecVis *)

\* C15: the visibility flag is false from construction on, becomes true with
\* the first Activation message (whatever its parameter) and by nothing else,
\* and once true it stays true: no deactivation, focus-lost, Resize to an
\* empty client area or Destroy resets it.
C15_VisibleMonotone ==
    /\ [](pc = "init" => ~window.visible)
    /\ [][Handled("WM_ACTIVATE") => window'.visible]_vars
    /\ [][(~window.visible /\ window'.visible)
            => (log' # log /\ Last(log').message = "WM_ACTIVATE")]_vars
    /\ [][window.visible => window'.visible]_vars

\* C15 witness: the first Activation was a deactivation (wparam 0); focus-lost
\* and a Resize to 0x0 followed, and the window is still visible
C15_Witness ==
    /\ window.visible
    /\ Len(log) = 3
    /\ log[1] = Msg("WM_ACTIVATE", 0, 0)
    /\ log[2] = Msg("WM_KILLFOCUS", 0, 0)
    /\ log[3] = SizeMsg(0, 0)

----------------------------------------------------------------------------
(* Polling and blocking, under Spec *)

\* App::run, at the head of its loop, returns from the blocking wait: a
\* step of the driver itself (nothing is posted) that does not enter the
\* polling branch
BlockingWait ==
    /\ pc = "loop"
    /\ posted' = posted
    /\ pc' # "drain"

\* C16: once the window is visible App::run performs no blocking wait any
\* more: the flag stays true, every iteration that starts while it is true
\* takes the polling branch, and polling an empty queue ends the iteration
\* without waiting; a blocking wait happens only in an iteration that starts
\* with the flag false.
C16_NoBlockingOnceVisible ==
    /\ [][(pc \in {"loop", "drain"} /\ window.visible) => window'.visible]_vars
    /\ [][BlockingWait => ~window.visible]_vars
    /\ [][(pc = "loop" /\ window.visible /\ posted' = posted)
            => (pc' = "drain" /\ queue' = queue /\ log' = log /\ message' = message)]_vars
    /\ [][(pc = "drain" /\ queue = <<>> /\ posted' = posted)
            => (pc' = "loop" /\ queue' = queue /\ log' = log /\ message' = message)]_vars

\* C16 witness: a visible iteration polled the empty queue, dispatched
\* nothing and ended; the driver is back at the head of the loop
C16_Witness ==
    /\ pc = "loop"
    /\ window.visible
    /\ queue = <<>>
    /\ iter.ended
    /\ iter.dispatched = 0

----------------------------------------------------------------------------
(* Auto-repeat filter and parameter conversion, under SpecKey *)

\* Bit 30 of the extra parameter of m (the previous key state) is set
PrevStateSet(m) == (m.lparam \div PrevStateBit) % 2 = 1

\* The window procedure has just handled a message, which is now Last(log')
HandledAny ==
    /\ pc = "loop"
    /\ log' = Append(log, Last(log'))
    /\ Len(log') = Len(log) + 1

\* C17: a key-down (system key-down included) whose key code is representable
\* registers the key as pressed if and only if bit 30 of its extra parameter
\* is clear or auto-repeat is enabled; an auto-repeat echo while auto-repeat
\* is disabled leaves the keyboard state unchanged; a key-up registers the
\* key as released whatever the bit and the flag are.
C17_AutoRepeatFilter ==
    /\ [][ (HandledAny /\ IsKeyDown(Last(log')) /\ Last(log').wparam <= U8Max)
           => IF ~PrevStateSet(Last(log')) \/ window.kbd.auto_repeat
              THEN /\ window'.kbd.keys = window.kbd.keys \cup {Last(log').wparam}
                   /\ ~lastPanic'
              ELSE /\ window' = window
                   /\ ~lastPanic' ]_vars
    /\ [][ (HandledAny /\ IsKeyUp(Last(log')) /\ Last(log').wparam <= U8Max)
           => ( /\ window'.kbd.keys = window.kbd.keys \ {Last(log').wparam}
                /\ ~lastPanic' ) ]_vars

\* C17 witness: with auto-repeat disabled, key 65 went down, came up with
\* bit 30 set, and an echo of its key-down followed: the key is not pressed
C17_Witness ==
    /\ ~window.kbd.auto_repeat
    /\ log = << Msg("WM_KEYDOWN", 65, 0),
                Msg("WM_KEYUP", 65, PrevStateBit),
                Msg("WM_KEYDOWN", 65, PrevStateBit) >>
    /\ window.kbd.keys = {}

\* m is a key-down, key-up or character message whose parameter does not
\* fit the keyboard's encoding
Unrepresentable(m) ==
    m.message \in KeyOrCharMessages /\ m.wparam > U8Max

\* C18 as stated: every key-down, key-up or character message whose parameter
\* is not representable aborts the handler and registers nothing, a key-down
\* that is an auto-repeat echo while auto-repeat is disabled included.
C18_Original ==
    [][ (HandledAny /\ Unrepresentable(Last(log')))
        => (lastPanic' /\ window' = window) ]_vars

\* C18, amended: a key-down, key-up or character message whose parameter is
\* not representable registers nothing; it aborts the handler, except a
\* key-down that is an auto-repeat echo while auto-repeat is disabled, which
\* is filtered out before the conversion and returns normally.
C18_AbortUnlessFiltered ==
    [][ (HandledAny /\ Unrepresentable(Last(log')))
        => ( /\ window' = window
             /\ lastPanic' = ~( /\ IsKeyDown(Last(log'))
                                /\ PrevStateSet(Last(log'))
                                /\ ~window.kbd.auto_repeat ) ) ]_vars

\* C18 witness: with auto-repeat disabled, an echo of key code 300 was
\* handled without a panic, and the character 8364 that followed aborted the
\* process; nothing was registered
C18_Witness ==
    /\ ~window.kbd.auto_repeat
    /\ log = << Msg("WM_KEYDOWN", 300, PrevStateBit), Msg("WM_CHAR", 8364, 0) >>
    /\ lastPanic
    /\ pc = "aborted"
    /\ window.kbd = Keyboard_new(FALSE)

----------------------------------------------------------------------------
(* Messages handled before the GFX exists, under SpecInit *)

\* C19 as stated: a Paint message delivered while the Surface/Device Handle
\* is absent (after the native window was created, before initialization
\* ended) invokes no render, is handled without failure and changes no
\* state, as a Resize in that state is.
C19_Original ==
    [][ ( /\ pc = "creating"
          /\ ~window.gfx.some
          /\ log' # log
          /\ Last(log').message \in {"WM_PAINT", "WM_SIZE"} )
        => ( /\ ~lastPanic'
             /\ pc' = "creating"
             /\ window' = window
             /\ renders' = renders ) ]_vars

----------------------------------------------------------------------------
(* Resize with an empty or negative client rectangle, under SpecGfx *)

\* C20 as stated: a Resize whose client width or height is zero or negative
\* is a no-op on the Surface/Device Handle: its configuration is unchanged
\* and the surface is not reconfigured (the handler converts the signed
\* 32-bit differences to unsigned 32-bit before the positivity check).
C20_Original ==
    [][ ( /\ Handled("WM_SIZE")
          /\ window.gfx.some
          /\ (Last(log').rcw <= 0 \/ Last(log').rch <= 0) )
        => window'.gfx = window.gfx ]_vars

----------------------------------------------------------------------------
(* What a focus-lost message leaves alone, under SpecFocus *)

\* C21: a focus-lost message changes only keyboard state: the mouse's
\* left/right pressed flags, its in-window flag and its event queue, the
\* visibility flag and the surface configuration are the same after the
\* message as before, so a button held before focus loss is still held.
C21_FocusLostFrame ==
    [][ Handled("WM_KILLFOCUS")
        => ( /\ window'.mouse = window.mouse
             /\ window'.visible = window.visible
             /\ window'.gfx = window.gfx
             /\ window' = [window EXCEPT !.kbd = window'.kbd]
             /\ capture' = capture
             /\ renders' = renders
             /\ queue' = queue
             /\ ~lastPanic' ) ]_vars

\* C21 witness: the left button and key 65 went down, then focus was lost:
\* the key is no longer pressed, the button still is
C21_Witness ==
    /\ log # <<>>
    /\ Last(log) = Msg("WM_KILLFOCUS", 0, 0)
    /\ \E i, j \in 1..Len(log) :
          /\ log[i] = Msg("WM_LBUTTONDOWN", 0, 0)
          /\ log[j] = Msg("WM_KEYDOWN", 65, 0)
    /\ window.kbd.keys = {}
    /\ window.mouse.left
    /\ window.mouse.events # <<>>

----------------------------------------------------------------------------
(* The Window's width and height, under SpecDims *)

\* C22: no message handler changes the Window's width and height: after any
\* sequence of messages, Resize included, they are the values given to
\* Window::new; and these construction values are what the inside test of a
\* mouse move and the reconfiguration after SurfaceLost read.
C22_DimensionsFixed ==
    /\ [](window.width = AppWidth /\ window.height = AppHeight)
    /\ [][ Handled("WM_MOUSEMOVE")
           => ( window'.mouse.in_window
                  <=> ( /\ DecodeX(Last(log').lparam) < AppWidth
                        /\ DecodeY(Last(log').lparam) < AppHeight ) ) ]_vars
    /\ [][ (Handled("WM_PAINT") /\ Last(log').result = "Lost" /\ window.gfx.some)
           => ( /\ window'.gfx.config.width = as_u32(AppWidth)
                /\ window'.gfx.config.height = as_u32(AppHeight)
                /\ window'.gfx.configures = window.gfx.configures + 1 ) ]_vars

\* C22 witness: after a Resize to 1024x768 a move to (900,10) was classified
\* against 800x600 (not in-window), and the Paint with a lost surface
\* reconfigured it at 800x600
C22_Witness ==
    /\ log = << SizeMsg(1024, 768),
                Msg("WM_MOUSEMOVE", 0, PackPos(900, 10)),
                PaintMsg("Lost") >>
    /\ ~window.mouse.in_window
    /\ window.gfx.config.width = U32(0, 800)
    /\ window.gfx.config.height = U32(0, 600)
    /\ window.gfx.configures = 3
    /\ window.width = 800
    /\ window.height = 600

----------------------------------------------------------------------------
(* Decoding of the position word, under SpecPos *)

\* A signed 16-bit value read as unsigned
Unsigned16(s) == IF s < 0 THEN s + Word16 ELSE s

\* C23: for every mouse-move and horizontal-wheel message the decoded x and y
\* are the two 16-bit halves of the position word taken as unsigned, each in
\* 0..65535, so x >= 0 and y >= 0 always hold; a negative signed coordinate
\* such as -5 is decoded and recorded as a value of 32768 or more, and a move
\* there is classified as outside only because the value is not below the
\* width or height.
C23_UnsignedDecode ==
    /\ [](\A i \in 1..Len(window.mouse.events) :
              /\ window.mouse.events[i].x \in 0..(Word16 - 1)
              /\ window.mouse.events[i].y \in 0..(Word16 - 1))
    /\ [][ \A sx, sy \in PosCoords :
             ( /\ HandledAny
               /\ Last(log').message \in {"WM_MOUSEMOVE", "WM_MOUSEHWHEEL"}
               /\ Last(log').lparam = PosWord(sx, sy) )
             => LET x == Unsigned16(sx)
                    y == Unsigned16(sy)
                    moved == Append(window.mouse.events, MouseEvent("Move", x, y, 0))
                IN  /\ DecodeX(Last(log').lparam) = x
                    /\ DecodeY(Last(log').lparam) = y
                    /\ x >= 0 /\ y >= 0
                    /\ (sx < 0 => x >= (Word16 \div 2))
                    /\ (sy < 0 => y >= (Word16 \div 2))
                    /\ InsideClient(window, x, y) = (x < window.width /\ y < window.height)
                    /\ IF Last(log').message = "WM_MOUSEHWHEEL"
                       THEN window'.mouse.events =
                              Append(window.mouse.events,
                                     MouseEvent("Wheel", x, y, Last(log').wparam))
                       ELSE IF x < window.width /\ y < window.height
                            THEN window'.mouse.in_window /\ window'.mouse.events = moved
                            ELSE IF window.mouse.left \/ window.mouse.right
                                 THEN /\ window'.mouse.events = moved
                                      /\ window'.mouse.in_window = window.mouse.in_window
                                 ELSE /\ window'.mouse.events = window.mouse.events
                                      /\ ~window'.mouse.in_window ]_vars

\* C23 witness: with the left button held, a move to (-5,-5) was recorded as
\* (65531,65531) and left the mouse outside; a wheel message at (-5,10) was
\* recorded at (65531,10)
C23_Witness ==
    /\ log = << Msg("WM_LBUTTONDOWN", 0, 0),
                Msg("WM_MOUSEMOVE", 0, PosWord(-5, -5)),
                Msg("WM_MOUSEHWHEEL", 120, PosWord(-5, 10)) >>
    /\ window.mouse.events =
         << MouseEvent("LeftDown", 0, 0, 0),
            MouseEvent("Move", 65531, 65531, 0),
            MouseEvent("Wheel", 65531, 10, 120) >>
    /\ ~window.mouse.in_window

====
